---- MODULE Spec2Model ----
(***************************************************************************)
(* Model of datastoreflex.client (src/src/datastoreflex/client.py):        *)
(* DatastoreFlex, a datastore client that offloads configured entity       *)
(* attributes ("columns") to a blob store (CloudFiles).                    *)
(*                                                                         *)
(* One facade instance runs one synchronous operation at a time.  An       *)
(* operation is a sequence of steps (pc) between the calls it makes to the *)
(* two stores.  The metadata store (google.cloud.datastore) and the blob   *)
(* store (cloudfiles) are external collaborators, modelled at the          *)
(* interface the client code relies on:                                    *)
(*   - a metadata call either succeeds or raises;                          *)
(*   - CloudFiles.get returns one result per requested path, in request    *)
(*     order, with "error" set for an item that failed or does not exist;  *)
(*   - CloudFiles.puts stores every descriptor that does not fail; blob    *)
(*     content is stored and returned as bytes;                            *)
(*   - allocate_ids returns fresh, increasing ids and rejects a complete   *)
(*     key.                                                                *)
(***************************************************************************)
EXTENDS Integers, Sequences, FiniteSets, TLC

(***************************************************************************)
(* Bounds                                                                  *)
(***************************************************************************)
MaxOps == 4        \* facade operations started in one behaviour

(***************************************************************************)
(* Values, keys, entities                                                  *)
(***************************************************************************)
\* Python values held by entity attributes: str, int or bytes.
SV(s) == [t |-> "str", s |-> s, n |-> 0]
IV(n) == [t |-> "int", s |-> "", n |-> n]
BV(s) == [t |-> "bytes", s |-> s, n |-> 0]

\* str(value)
PyStr(v) ==
    IF v.t = "int" THEN ToString(v.n)
    ELSE IF v.t = "bytes" THEN "b'" \o v.s \o "'"
    ELSE v.s

\* Key.id is None / Key.name is None
NoId == 0
NoName == ""

\* first id handed out by the metadata store's allocator
FirstAllocatedId == 7

Key(kind, id, name) == [kind |-> kind, id |-> id, name |-> name]
Entity(key, attrs) == [key |-> key, attrs |-> attrs]

\* the empty mapping
NoAttrs == [a \in {} |-> SV("")]

\* entity.pop(column, None)
Pop(attrs, a) == [x \in (DOMAIN attrs) \ {a} |-> attrs[x]]

\* entity[column] = value
SetAttr(attrs, a, v) ==
    [x \in (DOMAIN attrs) \cup {a} |-> IF x = a THEN v ELSE attrs[x]]

\* module constants of client.py
COLUMN_CONFIG_KEY_NAME == "column"
SENTINEL == "non_existent"

\* str(entity.key.id_or_name)
StrIdOrName(key) ==
    IF key.id # NoId THEN ToString(key.id)
    ELSE IF key.name # NoName THEN key.name
    ELSE "None"

(***************************************************************************)
(* _get_filespaths                                                         *)
(***************************************************************************)
\* "/".join(elements) for a sequence of strings
RECURSIVE JoinSlash(_)
JoinSlash(strs) ==
    IF Len(strs) = 0 THEN ""
    ELSE IF Len(strs) = 1 THEN strs[1]
    ELSE strs[1] \o "/" \o JoinSlash(Tail(strs))

\* non_existent: some path element is not an attribute of the entity
NonExistent(entity, path_elements) ==
    \E i \in 1..Len(path_elements) : path_elements[i] \notin DOMAIN entity.attrs

\* elements: the attribute values as they are, the sentinel for a missing
\* attribute, then the stringified identifier
PathElementsOf(entity, path_elements) ==
    [i \in 1..Len(path_elements) |->
        IF path_elements[i] \in DOMAIN entity.attrs
        THEN entity.attrs[path_elements[i]]
        ELSE SV(SENTINEL)]
    \o << SV(StrIdOrName(entity.key)) >>

\* the file entry of one entity: None, or the joined path.  str.join raises
\* TypeError when an element is not a str.
NoneFile == [kind |-> "none", path |-> ""]
ErrFile == [kind |-> "typeerror", path |-> ""]
FileOf(entity, path_elements, append_none) ==
    LET els == PathElementsOf(entity, path_elements) IN
    IF append_none /\ NonExistent(entity, path_elements) THEN NoneFile
    ELSE IF \E i \in 1..Len(els) : els[i].t # "str" THEN ErrFile
    ELSE [kind |-> "path", path |-> JoinSlash([i \in 1..Len(els) |-> els[i].s])]

\* GetFilespaths with the None entries left out of the list
GetFilespathsDropNone(entities, path_elements, append_none) ==
    SelectSeq([i \in 1..Len(entities) |-> FileOf(entities[i], path_elements, append_none)],
              LAMBDA f : f.kind # "none")

\* GetFilespaths that substitutes the sentinel in write mode too
GetFilespathsSentinel(entities, path_elements, append_none) ==
    [i \in 1..Len(entities) |-> FileOf(entities[i], path_elements, FALSE)]

\* files: one entry per entity, in entity order
GetFilespaths(entities, path_elements, append_none) ==
    [i \in 1..Len(entities) |-> FileOf(entities[i], path_elements, append_none)]

\* the call raises TypeError
FilespathsRaise(files) == \E i \in 1..Len(files) : files[i].kind = "typeerror"

(***************************************************************************)
(* Column configuration (NamespaceConfig)                                  *)
(***************************************************************************)
\* one entry of the "column" mapping; the mapping is a dict, iterated in
\* insertion order, so it is a sequence of entries with distinct columns
ColumnConfig(column, bucket_path, path_elements) ==
    [column |-> column, bucket_path |-> bucket_path, path_elements |-> path_elements]

NoColumns == << >>
CfgBlob == << ColumnConfig("blob", "b1", <<"tag">>) >>
CfgBlobNote == << ColumnConfig("blob", "b1", <<"tag">>),
                  ColumnConfig("note", "b2", <<"tag">>) >>
CfgTagBlob == << ColumnConfig("tag", "b2", << >>),
                 ColumnConfig("blob", "b1", <<"tag">>) >>

\* configurations a caller passes to add_config
Configs == {CfgBlob, CfgBlobNote, CfgTagBlob}

\* json.dumps(config): the text stored under "value" of the config record
JsonDumps(config) == [state |-> "json", doc |-> config]
\* a config record that holds malformed JSON, and no config record at all
MalformedRecord == [state |-> "malformed", doc |-> NoColumns]
AbsentRecord == [state |-> "absent", doc |-> NoColumns]

\* self._config: None, {} or {"column": ...}
NoneCache == [state |-> "None", columns |-> NoColumns]
EmptyCache == [state |-> "empty", columns |-> NoColumns]
LoadedCache(columns) == [state |-> "loaded", columns |-> columns]

\* ReadConfig with a malformed value taken for an empty configuration
ReadConfigLenient(record, fetch_fails) ==
    IF fetch_fails THEN [cache |-> EmptyCache, exc |-> "StoreError"]
    ELSE IF record.state = "json" THEN [cache |-> LoadedCache(record.doc), exc |-> ""]
    ELSE [cache |-> LoadedCache(NoColumns), exc |-> ""]

\* _read_config, run on self._config = {}: the fetch of the config key fails
\* (fetch_fails), finds no record (IndexError), or json.loads decodes or
\* rejects the value.  The result is the cache and the exception raised.
ReadConfig(record, fetch_fails) ==
    IF fetch_fails THEN [cache |-> EmptyCache, exc |-> "StoreError"]
    ELSE IF record.state = "absent" THEN [cache |-> LoadedCache(NoColumns), exc |-> ""]
    ELSE IF record.state = "malformed" THEN [cache |-> EmptyCache, exc |-> "JSONDecodeError"]
    ELSE [cache |-> LoadedCache(record.doc), exc |-> ""]

\* the config property: load on None, else the cached mapping
ConfigProperty(cache, record, fetch_fails) ==
    IF cache.state = "None" THEN ReadConfig(record, fetch_fails)
    ELSE [cache |-> cache, exc |-> ""]

\* self.config.get(COLUMN_CONFIG_KEY_NAME, {})
ColumnConfigsOf(cache) == IF cache.state = "loaded" THEN cache.columns ELSE NoColumns

\* AddConfigCache without the invalidation
AddConfigCacheKept(cache) == cache

\* add_config leaves self._config = None
AddConfigCache(cache) == NoneCache

(***************************************************************************)
(* The two stores                                                          *)
(***************************************************************************)
\* a store with nothing in it
EmptyStore == [k \in {} |-> NoAttrs]

\* the metadata store after committing the entities, in order
RECURSIVE CommitAll(_, _)
CommitAll(store, ents) ==
    IF Len(ents) = 0 THEN store
    ELSE LET e == ents[1]
             s == [k \in (DOMAIN store) \cup {e.key} |->
                      IF k = e.key THEN e.attrs ELSE store[k]]
         IN CommitAll(s, Tail(ents))

\* the entities the metadata store returns for the keys: the found ones, in
\* key order
RECURSIVE Lookup(_, _)
Lookup(store, keys) ==
    IF Len(keys) = 0 THEN << >>
    ELSE (IF keys[1] \in DOMAIN store
          THEN << Entity(keys[1], store[keys[1]]) >> ELSE << >>)
         \o Lookup(store, Tail(keys))

\* CloudFiles(bucket).get(files): one result per path, in order; an item
\* whose fetch failed or whose blob does not exist carries an error
BlobGet(store, bucket, files, failed) ==
    [i \in 1..Len(files) |->
        IF i \in failed \/ <<bucket, files[i].path>> \notin DOMAIN store
        THEN [error |-> TRUE, content |-> BV("")]
        ELSE [error |-> FALSE, content |-> store[<<bucket, files[i].path>>]]]

\* the locations CloudFiles(bucket).puts stores: those of the descriptors
\* that did not fail
PutLocations(bucket, upload_files, failed) ==
    { <<bucket, upload_files[i].path>> : i \in (1..Len(upload_files)) \ failed }

\* what the blob store holds for a content: bytes; a str is stored encoded
StoredContent(content) ==
    IF content.t = "bytes" THEN content
    ELSE IF content.t = "str" THEN BV(content.s)
    ELSE BV(ToString(content.n))

\* the blob store after puts; winner[loc] is the descriptor whose content
\* ends up at loc (two descriptors of one call may name the same path)
BlobPuts(store, bucket, upload_files, failed, winner) ==
    [loc \in (DOMAIN store) \cup PutLocations(bucket, upload_files, failed) |->
        IF loc \in PutLocations(bucket, upload_files, failed)
        THEN StoredContent(upload_files[winner[loc]].content)
        ELSE store[loc]]

Winners(bucket, upload_files, failed) ==
    { w \in [PutLocations(bucket, upload_files, failed) -> 1..Len(upload_files)] :
        \A loc \in DOMAIN w :
            w[loc] \notin failed /\ <<bucket, upload_files[w[loc]].path>> = loc }

(***************************************************************************)
(* _allocate_ids                                                           *)
(***************************************************************************)
\* positions of the unnamed entities: entity.key.id is None
Unnamed(ents) == { i \in 1..Len(ents) : ents[i].key.id = NoId }

Least(S) == CHOOSE i \in S : \A j \in S : i <= j

\* base_key = unnamed_entities[0].key
BaseKey(ents) == ents[Least(Unnamed(ents))].key

\* Client.allocate_ids raises ValueError for a key that is not partial
AllocateRejects(ents) == Unnamed(ents) # {} /\ BaseKey(ents).name # NoName

\* ids = self.allocate_ids(base_key, n): n complete keys made from base_key
AllocatedKeys(base_key, first_id, n) ==
    [j \in 1..n |-> Key(base_key.kind, first_id + j - 1, NoName)]

\* AllocateIds that gives every unnamed entity the first allocated key
AllocateIdsFirst(ents, first_id) ==
    [i \in 1..Len(ents) |->
        IF i \in Unnamed(ents)
        THEN Entity(Key(BaseKey(ents).kind, first_id, NoName), ents[i].attrs)
        ELSE ents[i]]

\* for entity, key_id in zip(unnamed_entities, ids): entity.key = key_id
AllocateIds(ents, first_id) ==
    LET U == Unnamed(ents)
        ids == AllocatedKeys(BaseKey(ents), first_id, Cardinality(U))
    IN [i \in 1..Len(ents) |->
           IF i \in U
           THEN Entity(ids[Cardinality({j \in U : j <= i})], ents[i].attrs)
           ELSE ents[i]]

(***************************************************************************)
(* _write_columns and _read_columns, one column                            *)
(***************************************************************************)
Min(a, b) == IF a <= b THEN a ELSE b

\* defaults of put / put_multi and of the cache-control header
COMPRESSION == "gzip"
COMPRESSION_LEVEL == 6
CACHE_CONTROL == "public; max-age=3600"

\* file_d of the entity at position i (src is i, kept for reference)
FileDescriptor(entity, column, file, i) ==
    [content |-> entity.attrs[column], path |-> file.path,
     compress |-> COMPRESSION, compression_level |-> COMPRESSION_LEVEL,
     cache_control |-> CACHE_CONTROL, src |-> i]

\* Uploaded with the column given up when an entity has no value for it
UploadedAbort(ents, files, column) ==
    IF \E i \in 1..Min(Len(ents), Len(files)) :
           files[i].kind = "path" /\ column \notin DOMAIN ents[i].attrs
    THEN {}
    ELSE { i \in 1..Min(Len(ents), Len(files)) : files[i].kind = "path" }

\* positions zip(entities, files) visits that get a descriptor: the file
\* is not None and entity[column] does not raise KeyError
Uploaded(ents, files, column) ==
    { i \in 1..Min(Len(ents), Len(files)) :
        files[i].kind = "path" /\ column \in DOMAIN ents[i].attrs }

\* upload_files, in the order of the loop
RECURSIVE UploadFilesFrom(_, _, _, _)
UploadFilesFrom(ents, files, column, i) ==
    IF i > Min(Len(ents), Len(files)) THEN << >>
    ELSE (IF i \in Uploaded(ents, files, column)
          THEN << FileDescriptor(ents[i], column, files[i], i) >> ELSE << >>)
         \o UploadFilesFrom(ents, files, column, i + 1)

UploadFiles(ents, files, column) == UploadFilesFrom(ents, files, column, 1)

\* StripColumn with the pop left out
StripColumnNoPop(ents, files, column) == ents

\* the entities after the loop: entity.pop(column, None) where a descriptor
\* was appended
StripColumn(ents, files, column) ==
    [i \in 1..Len(ents) |->
        IF i \in Uploaded(ents, files, column)
        THEN Entity(ents[i].key, Pop(ents[i].attrs, column))
        ELSE ents[i]]

\* MergeColumn with the loop ended at the first error
MergeColumnBreak(ents, results, column) ==
    [i \in 1..Len(ents) |->
        IF i <= Len(results) /\ \A j \in 1..i : ~results[j].error
        THEN Entity(ents[i].key, SetAttr(ents[i].attrs, column, results[i].content))
        ELSE ents[i]]

\* the entities after the merge loop of _read_columns: an item with an
\* error is skipped
MergeColumn(ents, results, column) ==
    [i \in 1..Len(ents) |->
        IF i <= Len(results) /\ ~results[i].error
        THEN Entity(ents[i].key, SetAttr(ents[i].attrs, column, results[i].content))
        ELSE ents[i]]

\* WriteOrder with the commit made first
WriteOrderCommitFirst == << "commit", "allocate", "config", "columns" >>

\* the order of put / put_multi: _write_columns (allocate, then the
\* columns), then the commit
WriteOrder == << "allocate", "config", "columns", "commit" >>

\* the phase that follows a phase of a write, "return" after the last
PhaseAfter(phase) ==
    LET i == CHOOSE j \in 1..Len(WriteOrder) : WriteOrder[j] = phase
    IN IF i < Len(WriteOrder) THEN WriteOrder[i + 1] ELSE "return"

\* the position of a write once a phase is over; the column loop is skipped
\* when no column is configured
RECURSIVE PcAfter(_, _)
PcAfter(phase, cfgs) ==
    LET nxt == PhaseAfter(phase) IN
    IF nxt = "return" THEN "idle"
    ELSE IF nxt = "columns"
         THEN (IF Len(cfgs) > 0 THEN "build" ELSE PcAfter("columns", cfgs))
    ELSE nxt

(***************************************************************************)
(* Inputs                                                                  *)
(***************************************************************************)
K1_1 == Key("K1", 1, NoName)
K2_1 == Key("K2", 1, NoName)
K1_new == Key("K1", NoId, NoName)
K1_named == Key("K1", NoId, "n")

TagBlob(tag, blob) == [a \in {"tag", "blob"} |-> IF a = "tag" THEN tag ELSE blob]

pFull == Entity(K1_1, TagBlob(SV("x"), BV("A")))
pOther == Entity(K2_1, TagBlob(SV("x"), BV("B")))
pBare == Entity(K1_1, [a \in {"tag"} |-> SV("x")])
pInt == Entity(K1_1, TagBlob(IV(5), BV("A")))
pNamed == Entity(K1_named, TagBlob(SV("x"), BV("A")))
pNewNoTag == Entity(K1_new, [a \in {"blob"} |-> BV("A")])
pNew == Entity(K1_new,
               [a \in {"tag", "blob", "note"} |->
                   IF a = "tag" THEN SV("x") ELSE IF a = "blob" THEN BV("B") ELSE BV("N")])

\* entities passed to put, batches passed to put_multi
PutEntities == {pFull, pOther, pBare, pInt, pNamed}
PutBatches == { <<pNewNoTag, pNew>>, <<pNew, pNamed>>, <<pFull, pOther>> }

\* keys passed to get, key lists passed to get_multi
GetKeys == {K1_1, K2_1}
GetKeyLists == { <<K1_1, K2_1>>,
                 <<Key("K1", FirstAllocatedId, NoName),
                   Key("K1", FirstAllocatedId + 1, NoName)>> }

\* config records the namespace may hold when the facade is constructed
InitialRecords == {AbsentRecord, MalformedRecord, JsonDumps(CfgBlob)}

(***************************************************************************)
(* State                                                                   *)
(***************************************************************************)
VARIABLES
    meta,            \* metadata store: key -> attributes
    cfgRecord,       \* the config record of the namespace
    blobs,           \* blob store: <<bucket, path>> -> content
    nextId,          \* next id of the metadata store's allocator
    self_config,     \* self._config
    pc,              \* position of the running operation, "idle" between
    op,              \* the operation running, or run last
    entities,        \* the entities the operation works on, in place
    column_configs,  \* column_configs of _read_columns / _write_columns
    col,             \* position of the column loop
    upload_files,    \* upload_files of the current column
    ret,             \* how the last operation ended
    ops,             \* operations started
    faulted,         \* a store call has failed in this behaviour
    hist             \* record of the calls made, for the properties

vars == << meta, cfgRecord, blobs, nextId, self_config, pc, op, entities,
           column_configs, col, upload_files, ret, ops, faulted, hist >>

NoRet == [status |-> "none", exc |-> "", value |-> << >>]
Ok(value) == [status |-> "ok", exc |-> "", value |-> value]
Raised(exc) == [status |-> "raised", exc |-> exc, value |-> << >>]

\* hist: args/keys are the arguments of the operation; fetched what the
\* metadata store returned to a read; trace the calls of the operation in
\* order; uploads and reads the blob calls with their outcome; committed
\* the entities handed to the metadata store; opFault whether a store call
\* of the operation failed; written, per key, the attributes of the last
\* put since the last config change; added the config of the last
\* add_config (twice and prior: there was an add_config before it, and its
\* config) and sinceAdd the operations started after it; taken whether
\* the operation has obtained column_configs; resolved the last call of
\* _get_filespaths; load how the operation got its configuration ("cached",
\* or the outcome of _read_config), lastLoad the last run of _read_config
\* and the columns it decoded; requested the number of ids the operation
\* asked allocate_ids for
NoAdded == [set |-> FALSE, config |-> NoColumns, before |-> NoneCache,
            twice |-> FALSE, prior |-> NoColumns]
NoResolved == [ents |-> << >>, path_elements |-> << >>, append_none |-> FALSE,
               files |-> << >>]
NoLoad == [kind |-> "", columns |-> NoColumns]
OpHist(h, args, keys) ==
    [h EXCEPT !.args = args, !.keys = keys, !.fetched = << >>, !.trace = << >>,
              !.uploads = << >>, !.reads = << >>, !.committed = << >>,
              !.resolved = NoResolved, !.opFault = FALSE, !.taken = FALSE,
              !.load = "", !.requested = 0]

\* one more get, get_multi, put or put_multi since the last add_config
Counted(h) ==
    [h EXCEPT !.sinceAdd = IF h.added.set THEN Min(h.sinceAdd + 1, 2) ELSE 0]

Event(ev, column) == [ev |-> ev, column |-> column]
Log(h, ev, column) == [h EXCEPT !.trace = Append(h.trace, Event(ev, column))]
Resolved(h, ents, path_elements, append_none, files) ==
    [h EXCEPT !.resolved = [ents |-> ents, path_elements |-> path_elements,
                            append_none |-> append_none, files |-> files]]

\* how self.config was served: from the cache, or by _read_config with the
\* fetch failing ("fetchfail") or returning the record in its state
LoadKind(cache, record, fetch_fails) ==
    IF cache.state # "None" THEN "cached"
    ELSE IF fetch_fails THEN "fetchfail"
    ELSE record.state
Loaded(h, kind, columns) ==
    [h EXCEPT !.load = kind,
              !.lastLoad = IF kind = "cached" THEN @
                           ELSE [kind |-> kind, columns |-> columns]]

Init ==
    /\ meta = EmptyStore
    /\ cfgRecord \in InitialRecords
    /\ blobs = [loc \in {} |-> BV("")]
    /\ nextId = FirstAllocatedId
    /\ self_config = NoneCache
    /\ pc = "idle"
    /\ op = "none"
    /\ entities = << >>
    /\ column_configs = NoColumns
    /\ col = 0
    /\ upload_files = << >>
    /\ ret = NoRet
    /\ ops = 0
    /\ faulted = FALSE
    /\ hist = [args |-> << >>, keys |-> << >>, fetched |-> << >>, trace |-> << >>,
               uploads |-> << >>, reads |-> << >>, committed |-> << >>,
               resolved |-> NoResolved, opFault |-> FALSE, taken |-> FALSE,
               written |-> EmptyStore, added |-> NoAdded, sinceAdd |-> 0,
               load |-> "", lastLoad |-> NoLoad, requested |-> 0]

\* a store call fails: at most once in a behaviour
MayFail(fails) == fails => ~faulted
Failing(h, fails) == [h EXCEPT !.opFault = h.opFault \/ fails]

\* the operation raises exc
Raise(exc) ==
    /\ pc' = "idle"
    /\ ret' = Raised(exc)

(***************************************************************************)
(* put, put_multi                                                          *)
(***************************************************************************)
\* keys of a batch
KeysOf(ents) == { ents[i].key : i \in 1..Len(ents) }

Forget(written, keys) == [k \in (DOMAIN written) \ keys |-> written[k]]

StartWrite(name, batch) ==
    /\ pc = "idle"
    /\ ops < MaxOps
    /\ pc' = WriteOrder[1]
    /\ op' = name
    /\ entities' = batch
    /\ column_configs' = NoColumns
    /\ col' = 0
    /\ upload_files' = << >>
    /\ ret' = NoRet
    /\ ops' = ops + 1
    /\ hist' = [Counted(OpHist(hist, batch, << >>)) EXCEPT
                   !.written = Forget(hist.written, KeysOf(batch))]
    /\ UNCHANGED << meta, cfgRecord, blobs, nextId, self_config, faulted >>

Put == \E e \in PutEntities : StartWrite("put", << e >>)

PutMulti == \E batch \in PutBatches : StartWrite("put_multi", batch)

\* self._allocate_ids(entities)
AllocateStep ==
    /\ pc = "allocate"
    /\ \E fails \in BOOLEAN :
        /\ MayFail(fails)
        /\ fails => Unnamed(entities) # {} /\ ~AllocateRejects(entities)
        /\ faulted' = (faulted \/ fails)
        /\ hist' = [Failing(Log(hist, "allocate", ""), fails) EXCEPT
                       !.requested = Cardinality(Unnamed(entities))]
        /\ IF Unnamed(entities) = {}
           THEN /\ pc' = PcAfter("allocate", column_configs)
                /\ ret' = IF pc' = "idle" THEN Ok(entities) ELSE ret
                /\ UNCHANGED << entities, nextId >>
           ELSE IF AllocateRejects(entities)
           THEN /\ Raise("ValueError")
                /\ UNCHANGED << entities, nextId >>
           ELSE IF fails
           THEN /\ Raise("StoreError")
                /\ UNCHANGED << entities, nextId >>
           ELSE /\ entities' = AllocateIds(entities, nextId)
                /\ nextId' = nextId + Cardinality(Unnamed(entities))
                /\ pc' = PcAfter("allocate", column_configs)
                /\ ret' = IF pc' = "idle" THEN Ok(entities') ELSE ret
    /\ UNCHANGED << meta, cfgRecord, blobs, self_config, op, column_configs, col,
                    upload_files, ops >>

\* column_configs = self.config.get(COLUMN_CONFIG_KEY_NAME, {}), of
\* _write_columns and of _read_columns
IsWrite == op \in {"put", "put_multi"}

ConfigStep ==
    /\ pc = "config"
    /\ \E fails \in BOOLEAN :
        /\ MayFail(fails)
        /\ fails => self_config.state = "None"
        /\ faulted' = (faulted \/ fails)
        /\ LET r == ConfigProperty(self_config, cfgRecord, fails)
               cfgs == ColumnConfigsOf(r.cache)
           IN /\ self_config' = r.cache
              /\ IF r.exc # ""
                 THEN /\ Raise(r.exc)
                      /\ hist' = Loaded(Failing(Log(hist, "config", ""), fails),
                                        LoadKind(self_config, cfgRecord, fails), NoColumns)
                      /\ UNCHANGED << column_configs, col >>
                 ELSE /\ column_configs' = cfgs
                      /\ col' = 1
                      /\ hist' = [Loaded(Log(hist, "config", ""),
                                         LoadKind(self_config, cfgRecord, fails), cfgs)
                                     EXCEPT !.taken = TRUE]
                      /\ pc' = IF IsWrite THEN PcAfter("config", cfgs)
                               ELSE IF Len(cfgs) > 0 THEN "read" ELSE "idle"
                      /\ ret' = IF pc' = "idle" THEN Ok(entities) ELSE ret
    /\ UNCHANGED << meta, cfgRecord, blobs, nextId, op, entities, upload_files, ops >>

\* one column of _write_columns up to the puts call: the paths, the
\* descriptors, the pops
BuildStep ==
    /\ pc = "build"
    /\ LET cc == column_configs[col]
           files == GetFilespaths(entities, cc.path_elements, TRUE)
       IN IF FilespathsRaise(files)
          THEN /\ Raise("TypeError")
               /\ hist' = Resolved(Log(hist, "paths", cc.column),
                                   entities, cc.path_elements, TRUE, files)
               /\ UNCHANGED << entities, upload_files >>
          ELSE /\ upload_files' = UploadFiles(entities, files, cc.column)
               /\ entities' = StripColumn(entities, files, cc.column)
               /\ pc' = "upload"
               /\ ret' = ret
               /\ hist' = [Resolved(Log(Log(hist, "paths", cc.column), "strip", cc.column),
                                     entities, cc.path_elements, TRUE, files)
                              EXCEPT !.uploads = Append(@,
                                  [column |-> cc.column, bucket |-> cc.bucket_path,
                                   path_elements |-> cc.path_elements,
                                   ents |-> entities, paths |-> files,
                                   files |-> upload_files', failed |-> {},
                                   sent |-> FALSE])]
    /\ UNCHANGED << meta, cfgRecord, blobs, nextId, self_config, op, column_configs,
                    col, ops, faulted >>

\* CloudFiles(config[COLUMN_CONFIG_BUCKET]).puts(upload_files)
UploadStep ==
    /\ pc = "upload"
    /\ LET cc == column_configs[col] IN
       \E failed \in SUBSET (1..Len(upload_files)) :
        /\ MayFail(failed # {})
        /\ faulted' = (faulted \/ failed # {})
        /\ \E winner \in Winners(cc.bucket_path, upload_files, failed) :
              blobs' = BlobPuts(blobs, cc.bucket_path, upload_files, failed, winner)
        /\ hist' = [Failing(Log(hist, "upload", cc.column), failed # {}) EXCEPT
                       !.uploads[Len(hist.uploads)].failed = failed,
                       !.uploads[Len(hist.uploads)].sent = TRUE]
    /\ col' = col + 1
    /\ pc' = IF col < Len(column_configs) THEN "build"
             ELSE PcAfter("columns", column_configs)
    /\ ret' = IF pc' = "idle" THEN Ok(entities) ELSE ret
    /\ UNCHANGED << meta, cfgRecord, nextId, self_config, op, entities,
                    column_configs, upload_files, ops >>

\* what hist.written records for a committed batch
Written(written, args, ents, clean) ==
    [k \in (DOMAIN written) \cup KeysOf(ents) |->
        IF k \in KeysOf(ents)
        THEN [attrs |-> args[CHOOSE i \in 1..Len(ents) : ents[i].key = k].attrs,
              clean |-> clean]
        ELSE written[k]]

\* self._put_multi(entities, retry, timeout)
CommitStep ==
    /\ pc = "commit"
    /\ \E fails \in BOOLEAN :
        /\ MayFail(fails)
        /\ faulted' = (faulted \/ fails)
        /\ IF fails
           THEN /\ Raise("StoreError")
                /\ hist' = Failing(Log(hist, "commit", ""), fails)
                /\ meta' = meta
           ELSE /\ meta' = CommitAll(meta, entities)
                /\ hist' = [Log(hist, "commit", "") EXCEPT
                               !.committed = entities,
                               !.written = Written(hist.written, hist.args, entities,
                                                   ~hist.opFault)]
                /\ pc' = PcAfter("commit", column_configs)
                /\ ret' = IF pc' = "idle" THEN Ok(entities) ELSE ret
    /\ UNCHANGED << cfgRecord, blobs, nextId, self_config, op, entities,
                    column_configs, col, upload_files, ops >>

(***************************************************************************)
(* get, get_multi                                                          *)
(***************************************************************************)
\* entities = self._get_multi(keys=...); get returns None when nothing is
\* found, get_multi goes on to _read_columns
StartRead(name, keys) ==
    /\ pc = "idle"
    /\ ops < MaxOps
    /\ op' = name
    /\ ops' = ops + 1
    /\ column_configs' = NoColumns
    /\ col' = 0
    /\ \E fails \in BOOLEAN :
        /\ MayFail(fails)
        /\ faulted' = (faulted \/ fails)
        /\ LET found == Lookup(meta, keys)
               h == Log(Counted(OpHist(hist, << >>, keys)), "fetch", "")
           IN IF fails
              THEN /\ Raise("StoreError")
                   /\ entities' = << >>
                   /\ hist' = Failing(h, fails)
              ELSE /\ entities' = found
                   /\ hist' = [h EXCEPT !.fetched = found]
                   /\ pc' = IF name = "get" /\ Len(found) = 0 THEN "idle" ELSE "config"
                   /\ ret' = IF pc' = "idle" THEN Ok(<< >>) ELSE NoRet
    /\ UNCHANGED << meta, cfgRecord, blobs, nextId, self_config, upload_files >>

Get == \E key \in GetKeys : StartRead("get", << key >>)

GetMulti == \E keys \in GetKeyLists : StartRead("get_multi", keys)

\* one column of _read_columns: the paths, the batched fetch, the merge
ReadStep ==
    /\ pc = "read"
    /\ LET cc == column_configs[col]
           files == GetFilespaths(entities, cc.path_elements, FALSE)
       IN IF FilespathsRaise(files)
          THEN /\ Raise("TypeError")
               /\ hist' = Resolved(Log(hist, "paths", cc.column),
                                   entities, cc.path_elements, FALSE, files)
               /\ UNCHANGED << entities, col, faulted >>
          ELSE \E failed \in SUBSET (1..Len(files)) :
                /\ MayFail(failed # {})
                /\ faulted' = (faulted \/ failed # {})
                /\ LET results == BlobGet(blobs, cc.bucket_path, files, failed)
                   IN /\ entities' = MergeColumn(entities, results, cc.column)
                      /\ hist' = [Resolved(Failing(Log(Log(hist, "paths", cc.column),
                                                       "download", cc.column), failed # {}),
                                            entities, cc.path_elements, FALSE, files)
                                     EXCEPT !.reads = Append(@,
                                         [column |-> cc.column, bucket |-> cc.bucket_path,
                                          path_elements |-> cc.path_elements,
                                          ents |-> entities, paths |-> files,
                                          results |-> results, failed |-> failed,
                                          merged |-> entities'])]
                /\ col' = col + 1
                /\ pc' = IF col < Len(column_configs) THEN "read" ELSE "idle"
                /\ ret' = IF pc' = "idle" THEN Ok(entities') ELSE ret
    /\ UNCHANGED << meta, cfgRecord, blobs, nextId, self_config, op, column_configs,
                    upload_files, ops >>

(***************************************************************************)
(* add_config                                                              *)
(***************************************************************************)
AddConfig ==
    /\ pc = "idle"
    /\ ops < MaxOps
    /\ op' = "add_config"
    /\ ops' = ops + 1
    /\ \E config \in Configs, fails \in BOOLEAN :
        /\ MayFail(fails)
        /\ faulted' = (faulted \/ fails)
        /\ IF fails
           THEN /\ Raise("StoreError")
                /\ hist' = Failing(OpHist(hist, << >>, << >>), fails)
                /\ UNCHANGED << cfgRecord, self_config >>
           ELSE /\ cfgRecord' = JsonDumps(config)
                /\ self_config' = AddConfigCache(self_config)
                /\ hist' = [OpHist(hist, << >>, << >>) EXCEPT
                               !.added = [set |-> TRUE, config |-> config,
                                          before |-> self_config,
                                          twice |-> hist.added.set,
                                          prior |-> hist.added.config],
                               !.sinceAdd = 0,
                               !.written = EmptyStore]
                /\ pc' = "idle"
                /\ ret' = Ok(<< >>)
    /\ UNCHANGED << meta, blobs, nextId, entities, column_configs, col,
                    upload_files >>

Next ==
    \/ Put
    \/ PutMulti
    \/ AllocateStep
    \/ ConfigStep
    \/ BuildStep
    \/ UploadStep
    \/ CommitStep
    \/ Get
    \/ GetMulti
    \/ ReadStep
    \/ AddConfig

Spec == Init /\ [][Next]_vars

(***************************************************************************)
(* Properties                                                              *)
(***************************************************************************)
IsRead == op \in {"get", "get_multi"}
Finished == pc = "idle" /\ ret.status = "ok"

\* every path element of the column is an attribute
HasPathElements(attrs, path_elements) ==
    \A e \in 1..Len(path_elements) : path_elements[e] \in DOMAIN attrs

\* C1 (round trip): when a get or get_multi in which no store call failed
\* returns an entity that was last written by a put or put_multi in which no
\* store call failed, with no config change since, then every configured
\* column for which the written entity had a value and all path elements
\* is returned with the value it had when it was written.
RoundTrip ==
    (Finished /\ IsRead /\ ~hist.opFault) =>
        \A i \in 1..Len(ret.value) :
            LET k == ret.value[i].key IN
            (k \in DOMAIN hist.written /\ hist.written[k].clean) =>
                \A j \in 1..Len(column_configs) :
                    LET cc == column_configs[j]
                        put == hist.written[k].attrs
                    IN (cc.column \in DOMAIN put /\ HasPathElements(put, cc.path_elements))
                        => /\ cc.column \in DOMAIN ret.value[i].attrs
                           /\ ret.value[i].attrs[cc.column] = put[cc.column]

ColumnsOf(cfgs) == { cfgs[j].column : j \in 1..Len(cfgs) }

\* the descriptors of an upload call that were made for the entity at
\* position i
DescriptorsOf(u, i) == { n \in 1..Len(u.files) : u.files[n].src = i }

\* C2 (selective offload): the record committed for an entity holds only
\* attributes of the caller's entity, each with its value unchanged; the
\* attributes it lacks are columns of the active config; and a column for
\* which a descriptor of the entity was uploaded is not in the record.
SelectiveOffload ==
    (IsWrite /\ Len(hist.committed) > 0) =>
        \A i \in 1..Len(hist.committed) :
            LET given == hist.args[i].attrs
                sent == hist.committed[i].attrs
            IN /\ DOMAIN sent \subseteq DOMAIN given
               /\ \A a \in DOMAIN sent : sent[a] = given[a]
               /\ (DOMAIN given) \ (DOMAIN sent) \subseteq ColumnsOf(column_configs)
               /\ \A n \in 1..Len(hist.uploads) :
                      DescriptorsOf(hist.uploads[n], i) # {}
                          => hist.uploads[n].column \notin DOMAIN sent

\* a put_multi committed an entity without its uploaded column and with an
\* attribute the config does not name
SelectiveOffloadWitness ==
    /\ op = "put_multi" /\ Finished
    /\ \E i \in 1..Len(hist.committed) :
        /\ "blob" \in DOMAIN hist.args[i].attrs
        /\ "blob" \notin DOMAIN hist.committed[i].attrs
        /\ "note" \in DOMAIN hist.committed[i].attrs
        /\ "note" \notin ColumnsOf(column_configs)
        /\ \E n \in 1..Len(hist.uploads) : DescriptorsOf(hist.uploads[n], i) # {}

\* positions of the events of a kind in the trace of the operation
Events(ev) == { n \in 1..Len(hist.trace) : hist.trace[n].ev = ev }
EventsOf(ev, column) ==
    { n \in Events(ev) : hist.trace[n].column = column }

\* C3 (ordering of a write): the allocation of identifiers comes before
\* every computation of write paths; the commit to the metadata store comes
\* after the stripping and the upload of every configured column, and
\* nothing of the write comes after it.
WriteOrdering ==
    IsWrite =>
        /\ \A p \in Events("paths") : \E a \in Events("allocate") : a < p
        /\ \A c \in Events("commit") :
              /\ \A n \in 1..Len(hist.trace) : n <= c
              /\ hist.taken
              /\ \A j \in 1..Len(column_configs) :
                    /\ \E s \in EventsOf("strip", column_configs[j].column) : s < c
                    /\ \E u \in EventsOf("upload", column_configs[j].column) : u < c

\* a put_multi that allocated identifiers, uploaded two columns and committed
WriteOrderingWitness ==
    /\ op = "put_multi" /\ Finished
    /\ Unnamed(hist.args) # {}
    /\ Len(column_configs) = 2
    /\ \E n \in 1..Len(hist.uploads) : Len(hist.uploads[n].files) > 0
    /\ Events("commit") # {}

\* C4 (config reload): the first get, get_multi, put or put_multi after an
\* add_config(c) that returned works with the columns of c.
ConfigReload ==
    (hist.added.set /\ hist.sinceAdd = 1 /\ hist.taken /\ (IsRead \/ IsWrite))
        => column_configs = hist.added.config

\* the operation after add_config(c) took its columns, and the cache held
\* another, loaded configuration when add_config was called
ConfigReloadWitness ==
    /\ hist.added.set /\ hist.sinceAdd = 1 /\ hist.taken
    /\ hist.added.before.state = "loaded"
    /\ hist.added.before.columns # hist.added.config
    /\ hist.added.before.columns # NoColumns
    /\ column_configs = hist.added.config

LastEvent == hist.trace[Len(hist.trace)].ev
LastUpload == hist.uploads[Len(hist.uploads)]
Location(bucket, file) == << bucket, file.path >>

\* _read_columns over all columns when no fetch fails: whether it raises,
\* and the entities it leaves
RECURSIVE ReadColumnsClean(_, _, _)
ReadColumnsClean(ents, cfgs, store) ==
    IF Len(cfgs) = 0 THEN [raised |-> FALSE, ents |-> ents]
    ELSE LET cc == cfgs[1]
             files == GetFilespaths(ents, cc.path_elements, FALSE)
         IN IF FilespathsRaise(files) THEN [raised |-> TRUE, ents |-> ents]
            ELSE ReadColumnsClean(
                     MergeColumn(ents, BlobGet(store, cc.bucket_path, files, {}), cc.column),
                     Tail(cfgs), store)

\* the items whose fetch failed in some column of the read
FailedItems == UNION { hist.reads[n].failed : n \in 1..Len(hist.reads) }

\* C5 (per-item blob failure isolation): a get or get_multi in which blob
\* fetches of some items failed, and which completes when no fetch fails,
\* completes all the same and returns every other item as it does when no
\* fetch fails; a put or put_multi does not raise out of the upload call,
\* and every descriptor whose upload did not fail is stored, its column
\* stripped from its entity.
BlobFailureIsolation ==
    /\ (IsRead /\ pc = "idle" /\ FailedItems # {}) =>
          LET clean == ReadColumnsClean(hist.fetched, column_configs, blobs) IN
          ~clean.raised =>
              /\ ret.status = "ok"
              /\ \A i \in (1..Len(hist.fetched)) \ FailedItems :
                    ret.value[i] = clean.ents[i]
    /\ (IsWrite /\ pc = "idle" /\ ret.status = "raised") => LastEvent # "upload"
    /\ (Len(hist.uploads) > 0 /\ LastUpload.sent /\ LastEvent = "upload") =>
          LET u == LastUpload IN
          \A n \in (1..Len(u.files)) \ u.failed :
              /\ Location(u.bucket, u.files[n]) \in DOMAIN blobs
              /\ blobs[Location(u.bucket, u.files[n])] \in
                    { StoredContent(u.files[m].content) : m \in { x \in (1..Len(u.files)) \ u.failed :
                                                     u.files[x].path = u.files[n].path } }
              /\ u.column \notin DOMAIN entities[u.files[n].src].attrs

\* a get_multi returned although the fetch of the existing blob of its
\* first item failed, and its second item carries the content of its blob
BlobFailureIsolationWitness ==
    /\ op = "get_multi" /\ Finished /\ Len(ret.value) = 2
    /\ FailedItems = {1}
    /\ \E n \in 1..Len(hist.reads) :
          LET r == hist.reads[n] IN
          /\ 1 \in r.failed
          /\ Location(r.bucket, r.paths[1]) \in DOMAIN blobs
          /\ ~r.results[2].error
          /\ ret.value[2].attrs[r.column] = r.results[2].content
          /\ ret.value[1] # ReadColumnsClean(hist.fetched, column_configs, blobs).ents[1]

\* C6 (missing path element on write): for an entity passed without some
\* path element of a column, no descriptor is made for that column and no
\* blob is stored at its sentinel path, the column's value stays on the
\* entity and is committed as passed; every entity of the batch that has
\* the path elements and the column gets its descriptor.
MissingPathElementOnWrite ==
    IsWrite =>
        \A n \in 1..Len(hist.uploads) :
            LET u == hist.uploads[n] IN
            /\ \A i \in 1..Len(hist.args) :
                  LET given == hist.args[i].attrs IN
                  ~HasPathElements(given, u.path_elements) =>
                      /\ DescriptorsOf(u, i) = {}
                      /\ Location(u.bucket, FileOf(u.ents[i], u.path_elements, FALSE))
                             \notin DOMAIN blobs
                      /\ u.column \in DOMAIN given =>
                            /\ u.column \in DOMAIN entities[i].attrs
                            /\ entities[i].attrs[u.column] = given[u.column]
                            /\ Len(hist.committed) > 0 =>
                                  /\ u.column \in DOMAIN hist.committed[i].attrs
                                  /\ hist.committed[i].attrs[u.column] = given[u.column]
            /\ \A i \in 1..Len(u.ents) :
                  (HasPathElements(u.ents[i].attrs, u.path_elements)
                     /\ u.column \in DOMAIN u.ents[i].attrs)
                      => DescriptorsOf(u, i) # {}

\* a put_multi committed an entity that lacks a path element with its column
\* inline, and uploaded the column of another entity of the batch
MissingPathElementOnWriteWitness ==
    /\ op = "put_multi" /\ Finished
    /\ \E n \in 1..Len(hist.uploads), i, k \in 1..Len(hist.args) :
          LET u == hist.uploads[n] IN
          /\ ~HasPathElements(hist.args[i].attrs, u.path_elements)
          /\ u.column \in DOMAIN hist.committed[i].attrs
          /\ DescriptorsOf(u, k) # {}
          /\ u.column \notin DOMAIN hist.committed[k].attrs

\* the blob of a computed path does not exist
Missing(r, i) ==
    r.paths[i].kind = "path" /\ Location(r.bucket, r.paths[i]) \notin DOMAIN blobs

\* C7 (missing blob on read): a get or get_multi in which no store call
\* failed and in which the blob of a computed path does not exist returns
\* without raising; the column of that path is not set on its entity; and
\* an entity none of whose blobs exists is returned as the metadata store
\* returned it.
MissingBlobOnRead ==
    (IsRead /\ pc = "idle" /\ ~hist.opFault) =>
        /\ (\E n \in 1..Len(hist.reads) :
                \E i \in 1..Len(hist.reads[n].ents) : Missing(hist.reads[n], i))
               => ret.status = "ok"
        /\ \A n \in 1..Len(hist.reads) :
              LET r == hist.reads[n] IN
              \A i \in 1..Len(r.ents) : Missing(r, i) => r.merged[i] = r.ents[i]
        /\ ret.status = "ok" =>
              \A i \in 1..Len(ret.value) :
                  (\A n \in 1..Len(hist.reads) : Missing(hist.reads[n], i))
                      => ret.value[i] = hist.fetched[i]

\* C8 (batch order): in every batched fetch the i-th path is the path of the
\* i-th entity, there is one result per entity, and the i-th entity gets the
\* content stored at its own path; get_multi returns the entities in the
\* order of the metadata store; every uploaded descriptor carries the path
\* and the content of the entity it was made for.
BatchAlignment ==
    /\ \A n \in 1..Len(hist.reads) :
          LET r == hist.reads[n] IN
          /\ Len(r.paths) = Len(r.ents)
          /\ Len(r.results) = Len(r.ents)
          /\ \A i \in 1..Len(r.ents) :
                /\ r.paths[i] = FileOf(r.ents[i], r.path_elements, FALSE)
                /\ r.merged[i].key = r.ents[i].key
                /\ ~r.results[i].error =>
                      r.merged[i].attrs[r.column] =
                          blobs[Location(r.bucket, FileOf(r.ents[i], r.path_elements, FALSE))]
    /\ (IsRead /\ Finished) =>
          /\ Len(ret.value) = Len(hist.fetched)
          /\ \A i \in 1..Len(ret.value) : ret.value[i].key = hist.fetched[i].key
    /\ \A n \in 1..Len(hist.uploads) :
          LET u == hist.uploads[n] IN
          \A m \in 1..Len(u.files) :
              LET d == u.files[m]
                  e == u.ents[d.src]
              IN /\ FileOf(e, u.path_elements, TRUE).kind = "path"
                 /\ d.path = FileOf(e, u.path_elements, TRUE).path
                 /\ u.column \in DOMAIN e.attrs
                 /\ d.content = e.attrs[u.column]

\* a get_multi returned two entities, the fetch of the first failed and the
\* second got its content
BatchAlignmentWitness ==
    /\ op = "get_multi" /\ Finished /\ Len(ret.value) = 2
    /\ \E n \in 1..Len(hist.reads) :
          LET r == hist.reads[n] IN
          /\ r.results[1].error
          /\ ~r.results[2].error
          /\ ret.value[2].attrs[r.column] = r.results[2].content

\* every entity of the batch was passed with a partial key
AllPartial(ents) ==
    /\ Len(ents) > 0
    /\ \A i \in 1..Len(ents) : ents[i].key.id = NoId /\ ents[i].key.name = NoName

\* the allocation of the running write was made and did not raise
Allocated ==
    /\ Events("allocate") # {}
    /\ ~(pc = "idle" /\ ret.status = "raised" /\ LastEvent = "allocate")

\* the string values of the path elements of an entity
PathValues(e, path_elements) ==
    [n \in 1..Len(path_elements) |-> e.attrs[path_elements[n]].s]

\* C9 (identifier allocation): after the allocation of a batch passed with
\* partial keys only, every entity has an id; the ids increase with the
\* position in the batch; until the commit no key of the metadata store
\* has one of these ids; and every descriptor's path is the path element
\* values followed by the id of its entity.
IdentifierAllocation ==
    (IsWrite /\ AllPartial(hist.args) /\ Allocated) =>
        /\ \A i \in 1..Len(entities) :
              /\ entities[i].key.id # NoId
              /\ Events("commit") = {} =>
                    \A k \in DOMAIN meta : k.id # entities[i].key.id
        /\ \A i, j \in 1..Len(entities) :
              i < j => entities[i].key.id < entities[j].key.id
        /\ \A n \in 1..Len(hist.uploads) :
              LET u == hist.uploads[n] IN
              \A m \in 1..Len(u.files) :
                  LET e == entities[u.files[m].src] IN
                  u.files[m].path =
                      JoinSlash(PathValues(e, u.path_elements)
                                    \o << ToString(e.key.id) >>)

\* a put_multi of two entities with partial keys returned after uploading a
\* column of the second
IdentifierAllocationWitness ==
    /\ op = "put_multi" /\ Finished
    /\ AllPartial(hist.args) /\ Len(hist.args) = 2
    /\ \E n \in 1..Len(hist.uploads) :
          \E m \in 1..Len(hist.uploads[n].files) : hist.uploads[n].files[m].src = 2

\* C10 (blob path construction): in every call of _get_filespaths, the
\* entry of an entity that has every path element is the stringified
\* values, in the configured order, then the stringified identifier, joined
\* with "/", and is the same in read mode and in write mode.
PathConstruction ==
    LET c == hist.resolved IN
    \A i \in 1..Len(c.ents) :
        HasPathElements(c.ents[i].attrs, c.path_elements) =>
            /\ c.files[i].kind = "path"
            /\ c.files[i].path =
                  JoinSlash([n \in 1..Len(c.path_elements) |->
                                 PyStr(c.ents[i].attrs[c.path_elements[n]])]
                            \o << StrIdOrName(c.ents[i].key) >>)
            /\ FileOf(c.ents[i], c.path_elements, TRUE)
                   = FileOf(c.ents[i], c.path_elements, FALSE)

\* C11 (malformed config): a get, get_multi, put or put_multi whose load of
\* the configuration found malformed JSON in the config record ends there
\* with the decode error, and has made no upload and no commit.
MalformedConfig ==
    ((IsRead \/ IsWrite) /\ hist.load = "malformed") =>
        /\ pc = "idle"
        /\ ret = Raised("JSONDecodeError")
        /\ Events("upload") = {}
        /\ Events("commit") = {}
        /\ LastEvent = "config"

\* a put of an entity with a column value met the malformed record and
\* raised, the two stores left as they were
MalformedConfigWitness ==
    /\ op = "put" /\ hist.args = << pFull >>
    /\ hist.load = "malformed"
    /\ cfgRecord = MalformedRecord
    /\ ret.exc = "JSONDecodeError"
    /\ meta = EmptyStore /\ DOMAIN blobs = {}

\* C12 (add_config replaces the whole config): after add_config(c1) and
\* then add_config(c2), every later get, get_multi, put or put_multi that
\* has taken its column configuration works with exactly c2: it uploads and
\* fetches the columns of c2 only, and all of them.
ReplaceWholeConfig ==
    (hist.added.twice /\ hist.taken /\ (IsRead \/ IsWrite)) =>
        /\ column_configs = hist.added.config
        /\ \A n \in 1..Len(hist.uploads) :
              hist.uploads[n].column \in ColumnsOf(hist.added.config)
        /\ \A n \in 1..Len(hist.reads) :
              hist.reads[n].column \in ColumnsOf(hist.added.config)

\* the key has a caller-assigned name or a numeric id
Identified(key) == key.id # NoId \/ key.name # NoName

\* C13 (existing identifiers are kept): in a put or put_multi, allocation
\* does not reject the batch for an entity that has a name; the number of
\* ids requested is the number of entities with neither id nor name; and an
\* entity passed with an id or a name keeps its key, through the path
\* computations and up to the commit.
ExistingIdentifiersKept ==
    (IsWrite /\ Events("allocate") # {}) =>
        /\ ~(pc = "idle" /\ ret = Raised("ValueError"))
        /\ hist.requested =
              Cardinality({ i \in 1..Len(hist.args) : ~Identified(hist.args[i].key) })
        /\ \A i \in 1..Len(hist.args) :
              Identified(hist.args[i].key) =>
                  /\ entities[i].key = hist.args[i].key
                  /\ \A n \in 1..Len(hist.uploads) :
                        hist.uploads[n].ents[i].key = hist.args[i].key
                  /\ Len(hist.committed) > 0 =>
                        hist.committed[i].key = hist.args[i].key

\* C14 (strip only after upload): when the upload call of a column is
\* issued, every entity a descriptor was made for still has the column; and
\* the column is never removed from an entity that has no descriptor in
\* that upload.
StripAfterUpload ==
    /\ pc = "upload" =>
          \A m \in 1..Len(upload_files) :
              column_configs[col].column \in DOMAIN entities[upload_files[m].src].attrs
    /\ IsWrite =>
          \A n \in 1..Len(hist.uploads) :
              LET u == hist.uploads[n] IN
              \A i \in 1..Len(u.ents) :
                  (u.column \in DOMAIN u.ents[i].attrs /\ DescriptorsOf(u, i) = {})
                      => u.column \in DOMAIN entities[i].attrs

\* the entity at position i of the upload has every path element of the
\* column and no value for it
LacksValue(u, i) ==
    HasPathElements(u.ents[i].attrs, u.path_elements)
        /\ u.column \notin DOMAIN u.ents[i].attrs

\* C15 (missing column value on write): an entity of a batch that has all
\* path elements of a column and no value for it gets no descriptor for
\* the column, and the write does not raise over it; every other entity of
\* the batch with the path elements and the value has its descriptor in the
\* upload and is stripped of the column; and the commit of the write holds
\* every entity of the batch, that entity included.
MissingColumnValue ==
    IsWrite =>
        \A n \in 1..Len(hist.uploads) :
            LET u == hist.uploads[n] IN
            \A i \in 1..Len(u.ents) :
                LacksValue(u, i) =>
                    /\ DescriptorsOf(u, i) = {}
                    /\ ret.exc \notin {"KeyError", "TypeError"}
                    /\ \A k \in 1..Len(u.ents) :
                          (HasPathElements(u.ents[k].attrs, u.path_elements)
                             /\ u.column \in DOMAIN u.ents[k].attrs)
                              => /\ DescriptorsOf(u, k) # {}
                                 /\ u.column \notin DOMAIN entities[k].attrs
                    /\ Len(hist.committed) > 0 =>
                          /\ Len(hist.committed) = Len(hist.args)
                          /\ KeysOf(hist.committed) \subseteq DOMAIN meta
                          /\ meta[hist.committed[i].key] = hist.committed[i].attrs
                    /\ (Finished /\ ~hist.opFault) => Len(hist.committed) = Len(hist.args)

\* a put_multi returned: one entity had the path elements of a column and no
\* value for it, the other was uploaded and stripped, both were committed
MissingColumnValueWitness ==
    /\ op = "put_multi" /\ Finished
    /\ Len(hist.committed) = 2
    /\ \E n \in 1..Len(hist.uploads) :
          LET u == hist.uploads[n] IN
          \E i, k \in 1..Len(u.ents) :
              /\ LacksValue(u, i)
              /\ DescriptorsOf(u, k) # {}
              /\ u.column \notin DOMAIN hist.committed[k].attrs
              /\ hist.committed[i].key \in DOMAIN meta

\* the column loop of _write_columns over cfgs, no upload failing: whether
\* it raises, the entities it leaves and the descriptors it uploads
RECURSIVE WriteColumnsOf(_, _)
WriteColumnsOf(ents, cfgs) ==
    IF Len(cfgs) = 0 THEN [raised |-> FALSE, ents |-> ents, uploads |-> {}]
    ELSE LET cc == cfgs[1]
             files == GetFilespaths(ents, cc.path_elements, TRUE)
         IN IF FilespathsRaise(files)
            THEN [raised |-> TRUE, ents |-> ents, uploads |-> {}]
            ELSE LET ups == UploadFiles(ents, files, cc.column)
                     rest == WriteColumnsOf(StripColumn(ents, files, cc.column), Tail(cfgs))
                 IN [raised |-> rest.raised, ents |-> rest.ents,
                     uploads |-> rest.uploads \cup
                         { << cc.column, cc.bucket_path, ups[m].path, ups[m].content >> :
                             m \in 1..Len(ups) }]

\* the columns in the opposite order
Reverse(cfgs) == [j \in 1..Len(cfgs) |-> cfgs[Len(cfgs) + 1 - j]]

\* the two outcomes of a column loop are the same: both raise, or neither
\* does and the entities (and uploads) are equal
SameOutcome(a, b) == a.raised = b.raised /\ (~a.raised => a = b)

\* C16 (columns are independent): at the start of the column loop of a
\* write, and of a read, processing the configured columns in the opposite
\* order gives the same uploads and the same entities.
ColumnsIndependent ==
    /\ (IsWrite /\ pc = "build" /\ col = 1) =>
          SameOutcome(WriteColumnsOf(entities, column_configs),
                      WriteColumnsOf(entities, Reverse(column_configs)))
    /\ (IsRead /\ pc = "read" /\ col = 1) =>
          SameOutcome(ReadColumnsClean(entities, column_configs, blobs),
                      ReadColumnsClean(entities, Reverse(column_configs), blobs))

\* C17 (the cache is never poisoned): self._config is None, or it holds the
\* columns decoded from the record the last load got; after a load that
\* failed it is None.
CacheNotPoisoned ==
    \/ self_config = NoneCache
    \/ /\ hist.lastLoad.kind \in {"absent", "json"}
       /\ self_config = LoadedCache(hist.lastLoad.columns)

\* C18 (no column value lost): when a put or put_multi has returned, the
\* value every entity was passed with for a configured column is in the
\* record committed for the entity, or in the blob store at the path of
\* the descriptor made for the entity.
NoValueLost ==
    (IsWrite /\ Finished) =>
        \A i \in 1..Len(hist.args) : \A j \in 1..Len(column_configs) :
            LET c == column_configs[j].column
                given == hist.args[i].attrs
                k == hist.committed[i].key
            IN c \in DOMAIN given =>
                \/ /\ k \in DOMAIN meta
                   /\ c \in DOMAIN meta[k]
                   /\ meta[k][c] = given[c]
                \/ \E n \in 1..Len(hist.uploads) :
                      LET u == hist.uploads[n] IN
                      /\ u.column = c
                      /\ \E m \in DescriptorsOf(u, i) :
                            /\ Location(u.bucket, u.files[m]) \in DOMAIN blobs
                            /\ blobs[Location(u.bucket, u.files[m])] = StoredContent(given[c])

\* C19 (distinct entities never share a blob): in the upload of a column,
\* the descriptors of two entities with different keys have different
\* paths.
DistinctBlobPaths ==
    \A n \in 1..Len(hist.uploads) :
        LET u == hist.uploads[n] IN
        \A a, b \in 1..Len(u.files) :
            u.ents[u.files[a].src].key # u.ents[u.files[b].src].key
                => u.files[a].path # u.files[b].path

\* C20 (a read reflects the latest write): with the configuration never
\* changed and no store call ever failed, a get of the only key written so
\* far, all by puts that returned, returns the attributes of the last put.
ReadsLatestWrite ==
    (op = "get" /\ Finished /\ ~faulted /\ ~hist.added.set /\ Len(ret.value) = 1) =>
        LET k == ret.value[1].key IN
        (DOMAIN meta = {k} /\ k \in DOMAIN hist.written) =>
            ret.value[1].attrs = hist.written[k].attrs

====
